---- MODULE Spec2Model ----
(***************************************************************************)
(* Model of the rules-based pairing engine of services/shuffleService.js:  *)
(* makePairs, makeNewbieParticipants, shuffleAndPair, isValidPair and      *)
(* validResult.  One behaviour is one call of makePairs; the loop of       *)
(* shuffleAndPair advances one shuffle attempt per step.                   *)
(*                                                                         *)
(* SpecService adds the entry point SheetDataService.makeRandomPairs, and  *)
(* SpecCAS models concurrent calls of GoogleSheetsData.updateCellWithCAS   *)
(* on one cell of the remote sheet.  SpecSheet is the life cycle of a      *)
(* SheetDataService with savePairsToSheet and MyManito.loadPairData,       *)
(* SpecValid is isValidPair on its own, SpecHook the fetchData calls of    *)
(* useGoogleSheets and SpecApi one call of makeApiRequest.                 *)
(***************************************************************************)
EXTENDS Naturals, Sequences, FiniteSets, TLC

VARIABLES
    normals,            \* argument: names of the normal members
    newbies,            \* argument: names of the newbies
    leaders,            \* argument: names of the leaders
    filterPairs,        \* argument: sequence of <<a, b>> forbidden tuples
    pc,                 \* position inside makePairs
    forbiddenPairs,     \* the Set of "a-b" keys built at lines 18-24
    partitioned,        \* TRUE once makeNewbieParticipants returned an object with both lists
    newbieAndLeaders,   \* Group A (line 27)
    remainLeaders,      \* leaders left for Group B (returned at line 145/161)
    normalParticipants, \* Group B (lines 29-32)
    matched,            \* the groups handed to the loop of shuffleAndPair, in call order
    pairs,              \* the accumulated pairs (line 34, 40, 47)
    attempt,            \* loop counter of shuffleAndPair (line 90)
    outcome,            \* "none", "returned" or "thrown"
    error,              \* which error was thrown, "" when none
    metadataError,      \* TRUE when the returned metadata carries an error field
    finalPairs,         \* the pairs of the returned object (with ids)
    dataGiven,          \* makeRandomPairs: data is an object with the three lists
    dataFilterPairs,    \* makeRandomPairs: data.filterPairs
    cell,               \* the value of the sheet cell at the remote service
    cellInitial,        \* the value of the cell when the CAS calls were made
    cas,                \* per client: the state of its updateCellWithCAS call
    isInitialized,      \* SheetDataService.isInitialized
    sheetsService,      \* SheetDataService.sheetsService: "null" or "service"
    sheetRows,          \* the rows of DB!J4:K1000 at the remote sheet, from row 4 down
    sheetCall,          \* the last call on the SheetDataService and how it ended
    lifecycle,          \* the last lifecycle call that completed: initialize or cleanup
    loadedPairs,        \* MyManito: the pairs that loadPairData set
    lastSave,           \* the most recent savePairsToSheet call that passed both guards
    ncalls,             \* how many calls were made on the SheetDataService
    checkGiver,         \* isValidPair called on its own: the giver
    checkReceiver,      \* isValidPair called on its own: the receiver
    checkFilter,        \* the filterPairs its deny list was built from
    verdict,            \* "none" before the call, then "true" or "false"
    hook,               \* useGoogleSheets: its state, its ref and the fetchData calls
    api                 \* one call of GoogleSheetsData.makeApiRequest

serviceVars == <<dataGiven, dataFilterPairs>>

casVars == <<cell, cellInitial, cas>>

validVars == <<checkGiver, checkReceiver, checkFilter, verdict>>

sheetVars == <<isInitialized, sheetsService, sheetRows, sheetCall, lifecycle,
               loadedPairs, lastSave, ncalls>>

\* the state that makePairs itself never touches
outside == <<serviceVars, casVars, sheetVars, validVars, hook, api>>

vars == <<normals, newbies, leaders, filterPairs, pc, forbiddenPairs, partitioned,
          newbieAndLeaders, remainLeaders, normalParticipants, matched, pairs,
          attempt, outcome, error, metadataError, finalPairs, outside>>

inputs == <<normals, newbies, leaders, filterPairs>>

----------------------------------------------------------------------------
(* Bounds of the explored inputs *)

MaxParticipants == 6
MaxFilter == 1

\* the names the argument lists are drawn from; "a" is both a normal and a
\* leader name, "l-x" holds the separator of the deny-list keys
NormalNames == <<"b", "c", "a">>
NewbieNames == <<"n", "m">>
LeaderNames == <<"l-x", "a", "k">>
FilterChoices == << <<"b", "c">>, <<"n-l", "x">>, <<"", "b">> >>

\* the first k names of pool, for every k
PrefixesOf(pool) == {SubSeq(pool, 1, k) : k \in 0..Len(pool)}

\* the elements of pool at the positions in S, in pool order
PickSeq(pool, S) ==
    LET F[i \in 0..Len(pool)] ==
            IF i = 0 THEN <<>>
            ELSE IF i \in S THEN Append(F[i - 1], pool[i]) ELSE F[i - 1]
    IN  F[Len(pool)]

\* every list of at most max entries of pool, in pool order
ListsFrom(pool, max) ==
    {PickSeq(pool, S) : S \in {T \in SUBSET (1..Len(pool)) : Cardinality(T) <= max}}

----------------------------------------------------------------------------
(* Helpers *)

maxAttempts == 100

Range(s) == {s[i] : i \in 1..Len(s)}

Tag(names, t) == [i \in 1..Len(names) |-> [name |-> names[i], type |-> t]]

\* the template literal `${a}-${b}`
Key(a, b) == a \o "-" \o b

\* BuildForbidden without line 22: only the key of the given direction
BuildForbidden_OneWay(fp) ==
    UNION {IF fp[i][1] # "" /\ fp[i][2] # ""
           THEN {Key(fp[i][1], fp[i][2])}
           ELSE {} : i \in 1..Len(fp)}

\* lines 18-24
BuildForbidden(fp) ==
    UNION {IF fp[i][1] # "" /\ fp[i][2] # ""
           THEN {Key(fp[i][1], fp[i][2]), Key(fp[i][2], fp[i][1])}
           ELSE {} : i \in 1..Len(fp)}

\* the outcomes of Math.floor(Math.random() * (i + 1)) for i = n-1 .. 1,
\* written 1-based: d[i] \in 1..i for i = n .. 2 (d[1] is never read)
RECURSIVE DrawsFor(_)
DrawsFor(n) ==
    IF n < 2 THEN {<<1>>}
    ELSE {Append(d, j) : d \in DrawsFor(n - 1), j \in 1..n}

Swap(s, i, j) == [s EXCEPT ![i] = s[j], ![j] = s[i]]

RECURSIVE FisherYatesFrom(_, _, _)
FisherYatesFrom(s, d, i) ==
    IF i < 2 THEN s ELSE FisherYatesFrom(Swap(s, i, d[i]), d, i - 1)

\* lines 92-96 and 149-153
FisherYates(s, d) == FisherYatesFrom(s, d, Len(s))

\* isValidPair without line 179
isValidPair_NewbieNewbie(giver, receiver, forbidden) ==
    IF giver.name = receiver.name THEN FALSE
    ELSE IF Key(giver.name, receiver.name) \in forbidden THEN FALSE
    ELSE IF giver.type = "newbie" /\ receiver.type = "normal" THEN FALSE
    ELSE IF receiver.type = "newbie" /\ giver.type = "normal" THEN FALSE
    ELSE TRUE

\* isValidPair without line 169
isValidPair_NoSelfCheck(giver, receiver, forbidden) ==
    IF Key(giver.name, receiver.name) \in forbidden THEN FALSE
    ELSE IF giver.type = "newbie" /\ receiver.type = "normal" THEN FALSE
    ELSE IF receiver.type = "newbie" /\ giver.type = "normal" THEN FALSE
    ELSE IF giver.type = "newbie" /\ receiver.type = "newbie" THEN FALSE
    ELSE TRUE

\* lines 167-183
isValidPair(giver, receiver, forbidden) ==
    IF giver.name = receiver.name THEN FALSE
    ELSE IF Key(giver.name, receiver.name) \in forbidden THEN FALSE
    ELSE IF giver.type = "newbie" /\ receiver.type = "normal" THEN FALSE
    ELSE IF receiver.type = "newbie" /\ giver.type = "normal" THEN FALSE
    ELSE IF giver.type = "newbie" /\ receiver.type = "newbie" THEN FALSE
    ELSE TRUE

\* line 104
ReceiverIndex(i, n) == (i % n) + 1

\* CycleValid with the loop of line 102 stopping before the wrap-around pair
CycleValid_NoWrap(shuffled, forbidden) ==
    \A i \in 1..(Len(shuffled) - 1) :
        isValidPair(shuffled[i], shuffled[ReceiverIndex(i, Len(shuffled))], forbidden)

\* lines 102-119: every cyclic pair of the shuffled group passes isValidPair
CycleValid(shuffled, forbidden) ==
    \A i \in 1..Len(shuffled) :
        isValidPair(shuffled[i], shuffled[ReceiverIndex(i, Len(shuffled))], forbidden)

\* CyclePairs with the wrap-around pair left out
CyclePairs_DropLast(shuffled) ==
    [i \in 1..(Len(shuffled) - 1) |->
        [giver |-> shuffled[i].name, giverType |-> shuffled[i].type,
         receiver |-> shuffled[i + 1].name, receiverType |-> shuffled[i + 1].type]]

\* CyclePairs with the members paired two by two instead of along the cycle
CyclePairs_TwoByTwo(shuffled) ==
    LET partner(i) == IF i % 2 = 0 THEN i - 1
                      ELSE IF i < Len(shuffled) THEN i + 1 ELSE 1
    IN  [i \in 1..Len(shuffled) |->
            [giver |-> shuffled[i].name, giverType |-> shuffled[i].type,
             receiver |-> shuffled[partner(i)].name,
             receiverType |-> shuffled[partner(i)].type]]

\* lines 112-118
CyclePairs(shuffled) ==
    [i \in 1..Len(shuffled) |->
        [giver |-> shuffled[i].name, giverType |-> shuffled[i].type,
         receiver |-> shuffled[ReceiverIndex(i, Len(shuffled))].name,
         receiverType |-> shuffled[ReceiverIndex(i, Len(shuffled))].type]]

\* slice(from) and slice(0, to), 1-based
Take(s, k) == SubSeq(s, 1, IF k < Len(s) THEN k ELSE Len(s))
Drop(s, k) == SubSeq(s, k + 1, Len(s))

\* makeNewbieParticipants with line 137 active: the leaders are added twice
makeNewbieParticipants_Line137(nb, ld, d) ==
    IF Len(nb) = 0
    THEN [hasLists |-> FALSE, newbieAndLeaders |-> <<>>, remainLeaders |-> <<>>]
    ELSE IF Len(ld) <= Len(nb)
    THEN [hasLists |-> TRUE,
          newbieAndLeaders |-> Tag(nb, "newbie") \o Tag(ld, "leader") \o Tag(ld, "leader"),
          remainLeaders |-> <<>>]
    ELSE LET shuffledLeaders == FisherYates(ld, d)
         IN  [hasLists |-> TRUE,
              newbieAndLeaders |-> Tag(nb, "newbie") \o Tag(ld, "leader")
                                     \o Tag(Take(shuffledLeaders, Len(nb)), "leader"),
              remainLeaders |-> Drop(shuffledLeaders, Len(nb))]

\* makeNewbieParticipants with line 157 keeping every shuffled leader
makeNewbieParticipants_NoSlice(nb, ld, d) ==
    IF Len(nb) = 0
    THEN [hasLists |-> FALSE, newbieAndLeaders |-> <<>>, remainLeaders |-> <<>>]
    ELSE IF Len(ld) <= Len(nb)
    THEN [hasLists |-> TRUE,
          newbieAndLeaders |-> Tag(nb, "newbie") \o Tag(ld, "leader"),
          remainLeaders |-> <<>>]
    ELSE LET shuffledLeaders == FisherYates(ld, d)
         IN  [hasLists |-> TRUE,
              newbieAndLeaders |-> Tag(nb, "newbie")
                                     \o Tag(Take(shuffledLeaders, Len(nb)), "leader"),
              remainLeaders |-> shuffledLeaders]

\* lines 130-163; hasLists is FALSE for the bare array of line 132, whose
\* newbieAndLeaders and remainLeaders properties are undefined
makeNewbieParticipants(nb, ld, d) ==
    IF Len(nb) = 0
    THEN [hasLists |-> FALSE, newbieAndLeaders |-> <<>>, remainLeaders |-> <<>>]
    ELSE IF Len(ld) <= Len(nb)
    THEN [hasLists |-> TRUE,
          newbieAndLeaders |-> Tag(nb, "newbie") \o Tag(ld, "leader"),
          remainLeaders |-> <<>>]
    ELSE LET shuffledLeaders == FisherYates(ld, d)
         IN  [hasLists |-> TRUE,
              newbieAndLeaders |-> Tag(nb, "newbie")
                                     \o Tag(Take(shuffledLeaders, Len(nb)), "leader"),
              remainLeaders |-> Drop(shuffledLeaders, Len(nb))]

\* lines 187-194: pairSet is created empty and nothing is ever added to it
PairSetAt(fp, k) == {}

\* lines 185-195
validResultThrows(fp) ==
    \E k \in 1..Len(fp) : Key(fp[k].receiver, fp[k].giver) \in PairSetAt(fp, k)

\* Renumber with id: index instead of index + 1
Renumber_ZeroBased(ps) ==
    [i \in 1..Len(ps) |->
        [id |-> i - 1, giver |-> ps[i].giver, giverType |-> ps[i].giverType,
         receiver |-> ps[i].receiver, receiverType |-> ps[i].receiverType]]

\* lines 53-56
Renumber(ps) ==
    [i \in 1..Len(ps) |->
        [id |-> i, giver |-> ps[i].giver, giverType |-> ps[i].giverType,
         receiver |-> ps[i].receiver, receiverType |-> ps[i].receiverType]]

----------------------------------------------------------------------------
(* The call *)

\* the working state of makePairs before anything has run
Fresh ==
    /\ forbiddenPairs = {}
    /\ partitioned = FALSE
    /\ newbieAndLeaders = <<>>
    /\ remainLeaders = <<>>
    /\ normalParticipants = <<>>
    /\ matched = <<>>
    /\ pairs = <<>>
    /\ attempt = 0
    /\ outcome = "none"
    /\ error = ""
    /\ metadataError = FALSE
    /\ finalPairs = <<>>

\* the three lists of one call
Population ==
    /\ normals \in PrefixesOf(NormalNames)
    /\ newbies \in PrefixesOf(NewbieNames)
    /\ leaders \in PrefixesOf(LeaderNames)
    /\ Len(normals) + Len(newbies) + Len(leaders) <= MaxParticipants

Clients == {"c1", "c2"}

\* no makeRandomPairs call
ServiceIdle ==
    /\ dataGiven = FALSE
    /\ dataFilterPairs = <<>>

\* no updateCellWithCAS call
CasIdle ==
    /\ cell = <<>>
    /\ cellInitial = <<>>
    /\ cas = [c \in Clients |->
                [pc |-> "idle", newValue |-> <<>>, expectedValue |-> <<>>,
                 currentValue |-> <<>>, result |-> "none", puts |-> 0]]

NoCall == [op |-> "none", pairs |-> <<>>, error |-> "", requests |-> <<>>]

\* a SheetDataService as the constructor leaves it (lines 12-15), no call made
SheetIdle ==
    /\ isInitialized = FALSE
    /\ sheetsService = "null"
    /\ sheetRows = <<>>
    /\ sheetCall = NoCall
    /\ lifecycle = "none"
    /\ loadedPairs = <<>>
    /\ lastSave = [made |-> FALSE, pairs |-> <<>>, ok |-> FALSE]
    /\ ncalls = 0

NoOne == [name |-> "", type |-> "none"]

\* no separate isValidPair call
ValidIdle ==
    /\ checkGiver = NoOne
    /\ checkReceiver = NoOne
    /\ checkFilter = <<>>
    /\ verdict = "none"

Fetches == {"f1", "f2", "f3"}

\* useGoogleSheets as first rendered with autoFetch off (lines 439-446)
HookIdle ==
    hook = [data |-> "null", loading |-> FALSE, error |-> "null", abortRef |-> "null",
            aborted |-> {}, superseded |-> {},
            fetches |-> [f \in Fetches |-> [pc |-> "idle", showLoading |-> FALSE]]]

\* no makeApiRequest call
ApiIdle ==
    api = [pc |-> "idle", caller |-> "none", token |-> "valid", sent |-> 0,
           statuses |-> <<>>, cleared |-> 0, result |-> "none"]

\* the components that the specifications below leave at rest
RestIdle == ValidIdle /\ HookIdle /\ ApiIdle

\* no makePairs call
PairingIdle ==
    /\ normals = <<>> /\ newbies = <<>> /\ leaders = <<>> /\ filterPairs = <<>>
    /\ pc = "idle"
    /\ Fresh

\* a direct call makePairs(normals, newbies, leaders, filterPairs)
Init ==
    /\ Population
    /\ filterPairs \in ListsFrom(FilterChoices, MaxFilter)
    /\ pc = "call"
    /\ Fresh
    /\ ServiceIdle
    /\ CasIdle
    /\ SheetIdle
    /\ RestIdle

Throw(e) ==
    /\ pc' = "done"
    /\ outcome' = "thrown"
    /\ error' = e

\* ReturnEmpty with the empty population treated as an exception
ReturnEmpty_Throws ==
    /\ pc = "call"
    /\ Len(normals) + Len(newbies) + Len(leaders) = 0
    /\ Throw("NoParticipants")
    /\ UNCHANGED <<outside, inputs, forbiddenPairs, partitioned, newbieAndLeaders, remainLeaders,
                   normalParticipants, matched, pairs, attempt, metadataError, finalPairs>>

\* lines 6-11: nobody at all
ReturnEmpty ==
    /\ pc = "call"
    /\ Len(normals) + Len(newbies) + Len(leaders) = 0
    /\ pc' = "done"
    /\ outcome' = "returned"
    /\ metadataError' = TRUE
    /\ finalPairs' = <<>>
    /\ UNCHANGED <<outside, inputs, forbiddenPairs, partitioned, newbieAndLeaders, remainLeaders,
                   normalParticipants, matched, pairs, attempt, error>>

\* ThrowSingle with line 13 folded into the empty-result branch of line 9
ThrowSingle_AsEmpty ==
    /\ pc = "call"
    /\ Len(normals) + Len(newbies) + Len(leaders) = 1
    /\ pc' = "done"
    /\ outcome' = "returned"
    /\ metadataError' = TRUE
    /\ finalPairs' = <<>>
    /\ UNCHANGED <<outside, inputs, forbiddenPairs, partitioned, newbieAndLeaders, remainLeaders,
                   normalParticipants, matched, pairs, attempt, error>>

\* lines 13-15
ThrowSingle ==
    /\ pc = "call"
    /\ Len(normals) + Len(newbies) + Len(leaders) = 1
    /\ Throw("OneParticipant")
    /\ UNCHANGED <<outside, inputs, forbiddenPairs, partitioned, newbieAndLeaders, remainLeaders,
                   normalParticipants, matched, pairs, attempt, metadataError, finalPairs>>

\* lines 17-32 with newbies empty: line 31 reads .map of undefined
PartitionTypeError ==
    /\ pc = "call"
    /\ Len(normals) + Len(newbies) + Len(leaders) >= 2
    /\ \E d \in DrawsFor(Len(leaders)) :
        ~makeNewbieParticipants(newbies, leaders, d).hasLists
    /\ forbiddenPairs' = BuildForbidden(filterPairs)
    /\ Throw("TypeError")
    /\ UNCHANGED <<outside, inputs, partitioned, newbieAndLeaders, remainLeaders,
                   normalParticipants, matched, pairs, attempt, metadataError, finalPairs>>

\* lines 17-34
Partition ==
    /\ pc = "call"
    /\ Len(normals) + Len(newbies) + Len(leaders) >= 2
    /\ \E d \in DrawsFor(Len(leaders)) :
        LET data == makeNewbieParticipants(newbies, leaders, d)
        IN  /\ data.hasLists
            /\ newbieAndLeaders' = data.newbieAndLeaders
            /\ remainLeaders' = data.remainLeaders
            /\ normalParticipants' = Tag(normals, "normal") \o Tag(data.remainLeaders, "leader")
    /\ forbiddenPairs' = BuildForbidden(filterPairs)
    /\ partitioned' = TRUE
    /\ pc' = "stage1"
    /\ UNCHANGED <<outside, inputs, matched, pairs, attempt, outcome, error, metadataError, finalPairs>>

Stages == {"stage1", "stage2"}

Group(stage) == IF stage = "stage1" THEN newbieAndLeaders ELSE normalParticipants
After(stage) == IF stage = "stage1" THEN "stage2" ELSE "finish"

\* lines 37 and 44: an empty group is not handed to shuffleAndPair
SkipGroup(stage) ==
    /\ pc = stage
    /\ Len(Group(stage)) = 0
    /\ pc' = After(stage)
    /\ UNCHANGED <<outside, inputs, forbiddenPairs, partitioned, newbieAndLeaders, remainLeaders,
                   normalParticipants, matched, pairs, attempt, outcome, error,
                   metadataError, finalPairs>>

\* ThrowGroupOfOne with the one-member group skipped like an empty one
ThrowGroupOfOne_Skips(stage) ==
    /\ pc = stage
    /\ Len(Group(stage)) = 1
    /\ pc' = After(stage)
    /\ UNCHANGED <<outside, inputs, forbiddenPairs, partitioned, newbieAndLeaders, remainLeaders,
                   normalParticipants, matched, pairs, attempt, outcome, error,
                   metadataError, finalPairs>>

\* lines 84-86
ThrowGroupOfOne(stage) ==
    /\ pc = stage
    /\ Len(Group(stage)) = 1
    /\ Throw("GroupOfOne")
    /\ UNCHANGED <<outside, inputs, forbiddenPairs, partitioned, newbieAndLeaders, remainLeaders,
                   normalParticipants, matched, pairs, attempt, metadataError, finalPairs>>

\* Attempt with the loop condition attempt <= maxAttempts
Attempt_OffByOne(stage) ==
    /\ pc = stage
    /\ Len(Group(stage)) >= 2
    /\ attempt <= maxAttempts
    /\ \/ \E d \in DrawsFor(Len(Group(stage))) :
            LET shuffled == FisherYates(Group(stage), d)
            IN  /\ CycleValid(shuffled, forbiddenPairs)
                /\ pairs' = pairs \o CyclePairs(shuffled)
                /\ matched' = Append(matched, Group(stage))
                /\ attempt' = 0
                /\ pc' = After(stage)
       \/ /\ \E d \in DrawsFor(Len(Group(stage))) :
                ~CycleValid(FisherYates(Group(stage), d), forbiddenPairs)
          /\ attempt' = attempt + 1
          /\ UNCHANGED <<pairs, matched, pc>>
    /\ UNCHANGED <<outside, inputs, forbiddenPairs, partitioned, newbieAndLeaders, remainLeaders,
                   normalParticipants, outcome, error, metadataError, finalPairs>>

\* Attempt with allValid never cleared (lines 105-108 left out)
Attempt_AcceptsAnyCycle(stage) ==
    /\ pc = stage
    /\ Len(Group(stage)) >= 2
    /\ attempt < maxAttempts
    /\ \E d \in DrawsFor(Len(Group(stage))) :
          /\ pairs' = pairs \o CyclePairs(FisherYates(Group(stage), d))
          /\ matched' = Append(matched, Group(stage))
          /\ attempt' = 0
          /\ pc' = After(stage)
    /\ UNCHANGED <<outside, inputs, forbiddenPairs, partitioned, newbieAndLeaders, remainLeaders,
                   normalParticipants, outcome, error, metadataError, finalPairs>>

\* lines 90-125: one pass of the attempt loop
Attempt(stage) ==
    /\ pc = stage
    /\ Len(Group(stage)) >= 2
    /\ attempt < maxAttempts
    /\ \/ \E d \in DrawsFor(Len(Group(stage))) :
            LET shuffled == FisherYates(Group(stage), d)
            IN  /\ CycleValid(shuffled, forbiddenPairs)
                /\ pairs' = pairs \o CyclePairs(shuffled)
                /\ matched' = Append(matched, Group(stage))
                /\ attempt' = 0
                /\ pc' = After(stage)
       \/ /\ \E d \in DrawsFor(Len(Group(stage))) :
                ~CycleValid(FisherYates(Group(stage), d), forbiddenPairs)
          /\ attempt' = attempt + 1
          /\ UNCHANGED <<pairs, matched, pc>>
    /\ UNCHANGED <<outside, inputs, forbiddenPairs, partitioned, newbieAndLeaders, remainLeaders,
                   normalParticipants, outcome, error, metadataError, finalPairs>>

\* line 127
ThrowUnsolvable(stage) ==
    /\ pc = stage
    /\ Len(Group(stage)) >= 2
    /\ attempt = maxAttempts
    /\ Throw("GroupUnsolvable")
    /\ UNCHANGED <<outside, inputs, forbiddenPairs, partitioned, newbieAndLeaders, remainLeaders,
                   normalParticipants, matched, pairs, attempt, metadataError, finalPairs>>

\* lines 50-76
Finish ==
    /\ pc = "finish"
    /\ IF validResultThrows(Renumber(pairs))
       THEN /\ Throw("Reciprocal")
            /\ UNCHANGED finalPairs
       ELSE /\ pc' = "done"
            /\ outcome' = "returned"
            /\ finalPairs' = Renumber(pairs)
            /\ UNCHANGED error
    /\ UNCHANGED <<outside, inputs, forbiddenPairs, partitioned, newbieAndLeaders, remainLeaders,
                   normalParticipants, matched, pairs, attempt, metadataError>>

Next ==
    \/ ReturnEmpty
    \/ ThrowSingle
    \/ PartitionTypeError
    \/ Partition
    \/ \E stage \in Stages : SkipGroup(stage)
    \/ \E stage \in Stages : ThrowGroupOfOne(stage)
    \/ \E stage \in Stages : Attempt(stage)
    \/ \E stage \in Stages : ThrowUnsolvable(stage)
    \/ Finish

Spec == Init /\ [][Next]_vars

----------------------------------------------------------------------------
(* SheetDataService.makeRandomPairs (services/sheetDataService.js) *)

\* what extractPairData keeps: rows whose two cells are non-empty
DataFilterChoices ==
    SelectSeq(FilterChoices, LAMBDA row : row[1] # "" /\ row[2] # "")

\* a call makeRandomPairs(data); without data the lists are not there
InitService ==
    /\ dataGiven \in BOOLEAN
    /\ IF dataGiven
       THEN /\ Population
            /\ dataFilterPairs \in ListsFrom(DataFilterChoices, MaxFilter)
       ELSE /\ normals = <<>> /\ newbies = <<>> /\ leaders = <<>>
            /\ dataFilterPairs = <<>>
    /\ filterPairs = <<>>
    /\ pc = "service"
    /\ Fresh
    /\ CasIdle
    /\ SheetIdle
    /\ RestIdle

\* the fourth argument that line 298 hands to makePairs: none, so the
\* default value [] of the parameter
FilterArgument(dataPairs) == <<>>

\* lines 295-297
MakeRandomPairsNoData ==
    /\ pc = "service"
    /\ ~dataGiven
    /\ Throw("NoData")
    /\ UNCHANGED <<outside, inputs, forbiddenPairs, partitioned, newbieAndLeaders,
                   remainLeaders, normalParticipants, matched, pairs, attempt,
                   metadataError, finalPairs>>

\* lines 294-298: the call of makePairs
MakeRandomPairs ==
    /\ pc = "service"
    /\ dataGiven
    /\ filterPairs' = FilterArgument(dataFilterPairs)
    /\ pc' = "call"
    /\ UNCHANGED <<outside, normals, newbies, leaders, forbiddenPairs, partitioned,
                   newbieAndLeaders, remainLeaders, normalParticipants, matched, pairs,
                   attempt, outcome, error, metadataError, finalPairs>>

NextService ==
    \/ MakeRandomPairsNoData
    \/ MakeRandomPairs
    \/ Next

SpecService == InitService /\ [][NextService]_vars

----------------------------------------------------------------------------
(* GoogleSheetsData.updateCellWithCAS (sheetServices/data.js): two clients *)
(* call it on the same cell; every await is a point where the other client *)
(* may run.  A cell value is the sequence of its characters.               *)

CellValues == { <<>>, <<"x">>, <<"x", " ">>, <<"y">>, <<"z">> }

RECURSIVE TrimStart(_)
TrimStart(s) == IF s # <<>> /\ Head(s) = " " THEN TrimStart(Tail(s)) ELSE s

RECURSIVE TrimEnd(_)
TrimEnd(s) ==
    IF s # <<>> /\ s[Len(s)] = " " THEN TrimEnd(SubSeq(s, 1, Len(s) - 1)) ELSE s

\* String.prototype.trim (lines 246-247)
Trim(s) == TrimEnd(TrimStart(s))

\* the state of makePairs and makeRandomPairs, which the CAS calls never touch
pairingVars == <<inputs, pc, forbiddenPairs, partitioned, newbieAndLeaders, remainLeaders,
                 normalParticipants, matched, pairs, attempt, outcome, error,
                 metadataError, finalPairs>>

\* the state outside the sheet services
engineVars == <<pairingVars, serviceVars, validVars, hook, api>>

callVars == <<engineVars, sheetVars>>

\* both clients have called updateCellWithCAS(cellAddress, newValue, expectedValue)
InitCAS ==
    /\ PairingIdle
    /\ ServiceIdle
    /\ SheetIdle
    /\ RestIdle
    /\ cell \in CellValues
    /\ cellInitial = cell
    /\ cas \in [Clients -> [pc : {"get"}, newValue : CellValues,
                            expectedValue : CellValues, currentValue : {<<>>},
                            result : {"none"}, puts : {0}]]

\* CasGetCellValue comparing the values as they are, without trim()
CasGetCellValue_NoTrim(c) ==
    /\ cas[c].pc = "get"
    /\ cas' = [cas EXCEPT ![c] =
                 IF cell # cas[c].expectedValue
                 THEN [@ EXCEPT !.currentValue = cell, !.pc = "done",
                                !.result = "conflict"]
                 ELSE [@ EXCEPT !.currentValue = cell, !.pc = "put"]]
    /\ UNCHANGED <<cell, cellInitial, callVars>>

\* lines 243-252: the GET answers, then the comparison of the trimmed values
CasGetCellValue(c) ==
    /\ cas[c].pc = "get"
    /\ cas' = [cas EXCEPT ![c] =
                 IF Trim(cell) # Trim(cas[c].expectedValue)
                 THEN [@ EXCEPT !.currentValue = cell, !.pc = "done",
                                !.result = "conflict"]
                 ELSE [@ EXCEPT !.currentValue = cell, !.pc = "put"]]
    /\ UNCHANGED <<cell, cellInitial, callVars>>

\* line 243 throws (request failed); lines 263-270 wrap the error
CasGetFails(c) ==
    /\ cas[c].pc = "get"
    /\ cas' = [cas EXCEPT ![c].pc = "done", ![c].result = "failed"]
    /\ UNCHANGED <<cell, cellInitial, callVars>>

\* lines 255-263: the PUT of updateCell is applied and the call returns
CasUpdateCell(c) ==
    /\ cas[c].pc = "put"
    /\ cell' = cas[c].newValue
    /\ cas' = [cas EXCEPT ![c].pc = "done", ![c].result = "success",
                           ![c].puts = @ + 1]
    /\ UNCHANGED <<cellInitial, callVars>>

\* line 255 throws (request failed); lines 263-270 wrap the error
CasUpdateFails(c) ==
    /\ cas[c].pc = "put"
    /\ cas' = [cas EXCEPT ![c].pc = "done", ![c].result = "failed",
                           ![c].puts = @ + 1]
    /\ UNCHANGED <<cell, cellInitial, callVars>>

NextCAS ==
    \/ \E c \in Clients : CasGetCellValue(c)
    \/ \E c \in Clients : CasGetFails(c)
    \/ \E c \in Clients : CasUpdateCell(c)
    \/ \E c \in Clients : CasUpdateFails(c)

SpecCAS == InitCAS /\ [][NextCAS]_vars

----------------------------------------------------------------------------
(* SheetDataService (services/sheetDataService.js): initialize, cleanup,   *)
(* fetchStructuredData and savePairsToSheet on one instance, the object    *)
(* that createGoogleSheetsService returns (sheetServices/index.js) and     *)
(* MyManito.loadPairData reading the saved pairs back.                     *)

MaxCalls == 3

\* the pair lists handed to savePairsToSheet are prefixes of these
SavePools ==
    << << [giver |-> "a", receiver |-> "b"], [giver |-> "b", receiver |-> "c"],
          [giver |-> "c", receiver |-> "a"] >>,
       << [giver |-> "n", receiver |-> "k"], [giver |-> "k", receiver |-> " n "] >> >>

SaveArguments == UNION {PrefixesOf(SavePools[i]) : i \in 1..Len(SavePools)}

\* what the sheet may hold in J4:K... before the first call
InitialRows ==
    { <<>>, << <<"a", "c">> >>, << <<"a", "c">>, <<"", "">>, <<"c", "a">> >> }

\* the methods of the object returned by createGoogleSheetsService
WrapperMethods ==
    {"getSheetData", "getCellValue", "updateCell", "updateCellWithCAS", "getBatchData",
     "getSpreadsheetMetadata", "testConnection", "authenticate", "updateConfig",
     "updateCredentials", "getConfig", "isAuthenticated", "getAuthStatus"}

\* line 322
PairData(p) == [i \in 1..Len(p) |-> <<p[i].giver, p[i].receiver>>]

\* lines 323-324: `${sheetName}!J4:K${3 + pairs.length}`
DataRange(sheetName, n) ==
    [sheet |-> sheetName, from |-> <<"J", 4>>, to |-> <<"K", 3 + n>>]

\* the range that loadPairData asks for
LoadRange == [sheet |-> "DB", from |-> <<"J", 4>>, to |-> <<"K", 1000>>]

\* values:batchUpdate with one range: the rows of the range are overwritten
\* with the values, every other row keeps what it held
RemoteBatchUpdate(rows, range, values) ==
    LET first == range.from[2] - 3
        last  == first + Len(values) - 1
        n     == IF Len(rows) > last THEN Len(rows) ELSE last
    IN  [i \in 1..n |->
            IF i >= first /\ i <= last THEN values[i - first + 1]
            ELSE IF i <= Len(rows) THEN rows[i]
            ELSE <<"", "">>]

\* values:batchGet of one range: the rows of the range
RemoteBatchGet(rows, range) ==
    SubSeq(rows, range.from[2] - 3,
           IF Len(rows) < range.to[2] - 3 THEN Len(rows) ELSE range.to[2] - 3)

\* String.prototype.trim on the names used here
TrimName(name) == IF name = " n " THEN "n" ELSE name

\* MyManito lines 39-52: rows with two non-blank cells, trimmed
ValidPairs(rawPairs) ==
    LET kept == SelectSeq(rawPairs,
                          LAMBDA row : TrimName(row[1]) # "" /\ TrimName(row[2]) # "")
    IN  [i \in 1..Len(kept) |->
            [giver |-> TrimName(kept[i][1]), receiver |-> TrimName(kept[i][2])]]

NotInitialized == ~isInitialized \/ sheetsService = "null"

Ended(op, p, e, reqs) == [op |-> op, pairs |-> p, error |-> e, requests |-> reqs]

InitSheet ==
    /\ PairingIdle
    /\ ServiceIdle
    /\ CasIdle
    /\ RestIdle
    /\ isInitialized = FALSE
    /\ sheetsService = "null"
    /\ sheetRows \in InitialRows
    /\ sheetCall = NoCall
    /\ lifecycle = "none"
    /\ loadedPairs = <<>>
    /\ lastSave = [made |-> FALSE, pairs |-> <<>>, ok |-> FALSE]
    /\ ncalls = 0

\* lines 24-40, no exception
Initialize ==
    /\ ncalls < MaxCalls
    /\ ncalls' = ncalls + 1
    /\ sheetsService' = "service"
    /\ isInitialized' = TRUE
    /\ lifecycle' = "initialize"
    /\ sheetCall' = Ended("initialize", <<>>, "", <<>>)
    /\ UNCHANGED <<sheetRows, loadedPairs, lastSave, engineVars, casVars>>

\* lines 24-40: lines 26-33 throw (credentials or configuration), line 36-38
InitializeFails ==
    /\ ncalls < MaxCalls
    /\ ncalls' = ncalls + 1
    /\ sheetCall' = Ended("initialize", <<>>, "InitFailed", <<>>)
    /\ UNCHANGED <<isInitialized, sheetsService, lifecycle, sheetRows, loadedPairs,
                   lastSave, engineVars, casVars>>

\* lines 283-286
Cleanup ==
    /\ ncalls < MaxCalls
    /\ ncalls' = ncalls + 1
    /\ sheetsService' = "null"
    /\ isInitialized' = FALSE
    /\ lifecycle' = "cleanup"
    /\ sheetCall' = Ended("cleanup", <<>>, "", <<>>)
    /\ UNCHANGED <<sheetRows, loadedPairs, lastSave, engineVars, casVars>>

\* FetchStructuredData without the guard of lines 77-79
FetchStructuredData_NoGuard ==
    /\ ncalls < MaxCalls
    /\ ncalls' = ncalls + 1
    /\ \E e \in {"", "FetchFailed"} :
          sheetCall' = Ended("fetch", <<>>, e, << [method |-> "batchGet"] >>)
    /\ UNCHANGED <<isInitialized, sheetsService, lifecycle, sheetRows, loadedPairs,
                   lastSave, engineVars, casVars>>

\* lines 76-105: the batchGet request answers or fails
FetchStructuredData ==
    /\ ncalls < MaxCalls
    /\ ncalls' = ncalls + 1
    /\ IF NotInitialized
       THEN sheetCall' = Ended("fetch", <<>>, "NotInitialized", <<>>)
       ELSE \E e \in {"", "FetchFailed"} :
               sheetCall' = Ended("fetch", <<>>, e, << [method |-> "batchGet"] >>)
    /\ UNCHANGED <<isInitialized, sheetsService, lifecycle, sheetRows, loadedPairs,
                   lastSave, engineVars, casVars>>

\* lines 309-354; line 337 calls a method of the object of initialize
SavePairsToSheet(p) ==
    /\ ncalls < MaxCalls
    /\ ncalls' = ncalls + 1
    /\ IF NotInitialized
       THEN /\ sheetCall' = Ended("save", p, "NotInitialized", <<>>)
            /\ UNCHANGED <<sheetRows, lastSave>>
       ELSE IF Len(p) = 0
       THEN /\ sheetCall' = Ended("save", p, "NoPairs", <<>>)
            /\ UNCHANGED <<sheetRows, lastSave>>
       ELSE IF "batchUpdateData" \notin WrapperMethods
       THEN \* TypeError at line 337, caught at line 350
            /\ sheetCall' = Ended("save", p, "SaveFailed", <<>>)
            /\ sheetRows' = sheetRows
            /\ lastSave' = [made |-> TRUE, pairs |-> p, ok |-> FALSE]
       ELSE LET request == [method |-> "batchUpdate",
                            range |-> DataRange("DB", Len(p)),
                            values |-> PairData(p)]
            IN  \/ /\ sheetCall' = Ended("save", p, "", <<request>>)
                   /\ sheetRows' = RemoteBatchUpdate(sheetRows, request.range,
                                                     request.values)
                   /\ lastSave' = [made |-> TRUE, pairs |-> p, ok |-> TRUE]
                \/ /\ sheetCall' = Ended("save", p, "SaveFailed", <<request>>)
                   /\ sheetRows' = sheetRows
                   /\ lastSave' = [made |-> TRUE, pairs |-> p, ok |-> FALSE]
    /\ UNCHANGED <<isInitialized, sheetsService, lifecycle, loadedPairs,
                   engineVars, casVars>>

\* MyManito.jsx lines 21-63: initialize, then getBatchData(['DB!J4:K1000'])
LoadPairData ==
    /\ ncalls < MaxCalls
    /\ ncalls' = ncalls + 1
    /\ \/ /\ sheetCall' = Ended("load", <<>>, "InitFailed", <<>>)
          /\ UNCHANGED <<isInitialized, sheetsService, lifecycle, loadedPairs>>
       \/ /\ sheetsService' = "service"
          /\ isInitialized' = TRUE
          /\ lifecycle' = "initialize"
          /\ \/ /\ sheetCall' = Ended("load", <<>>, "", << [method |-> "batchGet"] >>)
                /\ loadedPairs' = ValidPairs(RemoteBatchGet(sheetRows, LoadRange))
             \/ /\ sheetCall' = Ended("load", <<>>, "LoadFailed",
                                      << [method |-> "batchGet"] >>)
                /\ loadedPairs' = loadedPairs
    /\ UNCHANGED <<sheetRows, lastSave, engineVars, casVars>>

NextSheet ==
    \/ Initialize
    \/ InitializeFails
    \/ Cleanup
    \/ FetchStructuredData
    \/ \E p \in SaveArguments : SavePairsToSheet(p)
    \/ LoadPairData

SpecSheet == InitSheet /\ [][NextSheet]_vars

----------------------------------------------------------------------------
(* isValidPair on its own: any two participants and the deny list that     *)
(* makePairs builds from filterPairs (shuffleService.js lines 17-24,       *)
(* 166-183)                                                                *)

CheckNames == {"b", "c", "n", "l-x", "n-l", "x"}

CheckParticipants == [name : CheckNames, type : {"normal", "newbie", "leader"}]

InitValid ==
    /\ PairingIdle
    /\ ServiceIdle
    /\ CasIdle
    /\ SheetIdle
    /\ checkGiver \in CheckParticipants
    /\ checkReceiver \in CheckParticipants
    /\ checkFilter \in ListsFrom(FilterChoices, MaxFilter)
    /\ verdict = "none"
    /\ HookIdle
    /\ ApiIdle

\* lines 18-24, then isValidPair(giver, receiver, forbiddenPairs)
CheckPair ==
    /\ verdict = "none"
    /\ verdict' = IF isValidPair(checkGiver, checkReceiver, BuildForbidden(checkFilter))
                  THEN "true" ELSE "false"
    /\ UNCHANGED <<checkGiver, checkReceiver, checkFilter, pairingVars, serviceVars,
                   casVars, sheetVars, hook, api>>

NextValid == CheckPair

SpecValid == InitValid /\ [][NextValid]_vars

----------------------------------------------------------------------------
(* useGoogleSheets.fetchData (sheetServices/hooks.js): up to three calls   *)
(* of fetchData on one hook; the await of getSheetData is where other      *)
(* calls run.  The response of call f carries the data f.                  *)

InitHook ==
    /\ PairingIdle
    /\ ServiceIdle
    /\ CasIdle
    /\ SheetIdle
    /\ ValidIdle
    /\ ApiIdle
    /\ HookIdle

\* the test of lines 498 and 508: abortControllerRef.current?.signal.aborted
CurrentAborted(h) == h.abortRef # "null" /\ h.abortRef \in h.aborted

\* lines 479-505: up to the await of getSheetData; the controller of call f
\* is named f, superseded records the calls that were awaiting at that time
FetchStart(f, showLoading) ==
    /\ hook.fetches[f].pc = "idle"
    /\ hook' = [hook EXCEPT
                  !.aborted = IF hook.abortRef # "null" THEN @ \cup {hook.abortRef} ELSE @,
                  !.abortRef = f,
                  !.loading = IF showLoading THEN TRUE ELSE @,
                  !.superseded = @ \cup {g \in Fetches : hook.fetches[g].pc = "awaiting"},
                  !.fetches[f] = [pc |-> "awaiting", showLoading |-> showLoading]]
    /\ UNCHANGED <<pairingVars, serviceVars, casVars, sheetVars, validVars, api>>

\* lines 505-513 and 524-529: getSheetData resolves
FetchResolve(f) ==
    /\ hook.fetches[f].pc = "awaiting"
    /\ hook' = [hook EXCEPT
                  !.data = IF CurrentAborted(hook) THEN @ ELSE f,
                  !.error = IF CurrentAborted(hook) THEN @ ELSE "null",
                  !.loading = IF hook.fetches[f].showLoading THEN FALSE ELSE @,
                  !.abortRef = "null",
                  !.fetches[f].pc = "done"]
    /\ UNCHANGED <<pairingVars, serviceVars, casVars, sheetVars, validVars, api>>

\* lines 515-529: getSheetData rejects (never with an AbortError: the signal
\* is not handed to it)
FetchReject(f) ==
    /\ hook.fetches[f].pc = "awaiting"
    /\ hook' = [hook EXCEPT
                  !.error = f,
                  !.loading = IF hook.fetches[f].showLoading THEN FALSE ELSE @,
                  !.abortRef = "null",
                  !.fetches[f].pc = "done"]
    /\ UNCHANGED <<pairingVars, serviceVars, casVars, sheetVars, validVars, api>>

NextHook ==
    \/ \E f \in Fetches, showLoading \in BOOLEAN : FetchStart(f, showLoading)
    \/ \E f \in Fetches : FetchResolve(f)
    \/ \E f \in Fetches : FetchReject(f)

SpecHook == InitHook /\ [][NextHook]_vars

----------------------------------------------------------------------------
(* GoogleSheetsData.makeApiRequest (sheetServices/data.js lines 27-80):    *)
(* one call; every await is a step.  A response is its HTTP status, or     *)
(* "rejected" when fetch itself rejects.                                   *)

\* the methods of GoogleSheetsData that call makeApiRequest
Callers == {"getSheetData", "getCellValue", "updateCell", "getBatchData",
            "getSpreadsheetMetadata", "batchUpdateData"}

Responses == {"200", "400", "401", "403", "404", "429", "500", "rejected"}

InitApi ==
    /\ PairingIdle
    /\ ServiceIdle
    /\ CasIdle
    /\ SheetIdle
    /\ ValidIdle
    /\ HookIdle
    /\ api \in [pc : {"ensure"}, caller : Callers, token : {"valid", "expired"},
                sent : {0}, statuses : {<<>>}, cleared : {0}, result : {"none"}]

apiOthers == <<pairingVars, serviceVars, casVars, sheetVars, validVars, hook>>

\* line 30: ensureValidToken; an expired token is renewed or the call throws
ApiEnsureToken ==
    /\ api.pc = "ensure"
    /\ \/ api' = [api EXCEPT !.pc = "fetch", !.token = "valid"]
       \/ /\ api.token = "expired"
          /\ api' = [api EXCEPT !.pc = "done", !.result = "thrown"]
    /\ UNCHANGED apiOthers

\* lines 41-76: the first fetch and what its response leads to
ApiFetch(r) ==
    /\ api.pc = "fetch"
    /\ api' = [api EXCEPT
                 !.sent = @ + 1,
                 !.statuses = Append(@, r),
                 !.pc = IF r = "401" THEN "reauth" ELSE "done",
                 !.result = IF r = "200" THEN "returned"
                            ELSE IF r = "401" THEN "none" ELSE "thrown"]
    /\ UNCHANGED apiOthers

\* lines 49-50: clearAuthentication, then authenticate answers or throws
ApiReauthenticate ==
    /\ api.pc = "reauth"
    /\ \/ api' = [api EXCEPT !.cleared = @ + 1, !.pc = "refetch"]
       \/ api' = [api EXCEPT !.cleared = @ + 1, !.token = "none", !.pc = "done",
                             !.result = "thrown"]
    /\ UNCHANGED apiOthers

\* ApiRetryFetch treating a second 401 like the first one
ApiRetryFetch_Again(r) ==
    /\ api.pc = "refetch"
    /\ api' = [api EXCEPT
                 !.sent = @ + 1,
                 !.statuses = Append(@, r),
                 !.pc = IF r = "401" THEN "reauth" ELSE "done",
                 !.result = IF r = "200" THEN "returned"
                            ELSE IF r = "401" THEN "none" ELSE "thrown"]
    /\ UNCHANGED apiOthers

\* lines 62-69: the one retry
ApiRetryFetch(r) ==
    /\ api.pc = "refetch"
    /\ api' = [api EXCEPT
                 !.sent = @ + 1,
                 !.statuses = Append(@, r),
                 !.pc = "done",
                 !.result = IF r = "200" THEN "returned" ELSE "thrown"]
    /\ UNCHANGED apiOthers

NextApi ==
    \/ ApiEnsureToken
    \/ \E r \in Responses : ApiFetch(r)
    \/ ApiReauthenticate
    \/ \E r \in Responses : ApiRetryFetch(r)

SpecApi == InitApi /\ [][NextApi]_vars

----------------------------------------------------------------------------
(* Vocabulary of the properties *)

AllNames == normals \o newbies \o leaders

Distinct(s) == \A i, j \in 1..Len(s) : i # j => s[i] # s[j]

Returned == pc = "done" /\ outcome = "returned"

GiverCount(ps, x) == Cardinality({i \in 1..Len(ps) : ps[i].giver = x})
ReceiverCount(ps, x) == Cardinality({i \in 1..Len(ps) : ps[i].receiver = x})

HasEdge(ps, x, y) == \E i \in 1..Len(ps) : ps[i].giver = x /\ ps[i].receiver = y

NamesOf(group) == {group[i].name : i \in 1..Len(group)}

OfType(group, t) == SelectSeq(group, LAMBDA p : p.type = t)

----------------------------------------------------------------------------
(* C1 *)

\* C1: a returned result for at least 2 participants with pairwise distinct
\* names has every participant exactly once as giver and exactly once as
\* receiver, the pairs of both groups taken together.
C1_EveryoneOnce ==
    (Returned /\ Len(AllNames) >= 2 /\ Distinct(AllNames)) =>
        /\ Len(finalPairs) = Len(AllNames)
        /\ \A x \in Range(AllNames) :
              GiverCount(finalPairs, x) = 1 /\ ReceiverCount(finalPairs, x) = 1

\* a result made of the pairs of two groups, one of them of three or more
C1_Witness ==
    /\ Returned /\ Distinct(AllNames)
    /\ Len(matched) = 2
    /\ Len(finalPairs) >= 5
    /\ remainLeaders # <<>>

----------------------------------------------------------------------------
(* C2 *)

\* C2: a returned result holds neither a->b nor b->a for any filterPairs
\* entry (a, b) whose two names are non-empty.
C2_NoForbiddenEdge ==
    Returned =>
        \A i \in 1..Len(filterPairs) :
            (filterPairs[i][1] # "" /\ filterPairs[i][2] # "") =>
                /\ ~HasEdge(finalPairs, filterPairs[i][1], filterPairs[i][2])
                /\ ~HasEdge(finalPairs, filterPairs[i][2], filterPairs[i][1])

\* a result for a group that holds both names of a deny-list entry
C2_Witness ==
    /\ Returned
    /\ \E i \in 1..Len(filterPairs), g \in 1..Len(matched) :
          /\ filterPairs[i][1] # "" /\ filterPairs[i][2] # ""
          /\ filterPairs[i][1] # filterPairs[i][2]
          /\ {filterPairs[i][1], filterPairs[i][2]} \subseteq NamesOf(matched[g])

----------------------------------------------------------------------------
(* C3 *)

\* C3: no returned result holds both a pair X->Y and a pair Y->X.
C3_NoReciprocalPair ==
    Returned =>
        \A i, j \in 1..Len(finalPairs) :
            ~(finalPairs[i].giver = finalPairs[j].receiver
              /\ finalPairs[i].receiver = finalPairs[j].giver)

----------------------------------------------------------------------------
(* C4 *)

\* C4: in a returned result the counterpart of a newbie is always a leader:
\* no newbie->normal, normal->newbie or newbie->newbie pair.
C4_NewbieOnlyWithLeader ==
    Returned =>
        \A i \in 1..Len(finalPairs) :
            /\ finalPairs[i].giverType = "newbie" => finalPairs[i].receiverType = "leader"
            /\ finalPairs[i].receiverType = "newbie" => finalPairs[i].giverType = "leader"

\* a result that holds newbies and normals
C4_Witness ==
    /\ Returned
    /\ \E i, j \in 1..Len(finalPairs) :
          finalPairs[i].giverType = "newbie" /\ finalPairs[j].giverType = "normal"

----------------------------------------------------------------------------
(* C5 *)

\* C5: with no newbies and at least 2 normals plus leaders, partitioning does
\* not fail: Group A is skipped and the matcher runs on one group made of all
\* normals plus all leaders.
C5_NoNewbiesOneGroup ==
    (pc = "done" /\ Len(newbies) = 0 /\ Len(normals) + Len(leaders) >= 2) =>
        /\ partitioned
        /\ newbieAndLeaders = <<>>
        /\ OfType(normalParticipants, "normal") = Tag(normals, "normal")
        /\ NamesOf(OfType(normalParticipants, "leader")) = Range(leaders)
        /\ Len(normalParticipants) = Len(normals) + Len(leaders)
        /\ error \in {"", "GroupUnsolvable", "Reciprocal"}

----------------------------------------------------------------------------
(* C6 *)

TwoNewbiesOneLeader ==
    /\ Len(newbies) = 2 /\ Len(leaders) = 1 /\ Len(normals) = 0
    /\ Distinct(AllNames)
    /\ filterPairs = <<>>

\* C6 as stated: for newbies=[N1,N2], leaders=[L1], normals=[] Group A is
\* N1, N2, L1 and some shuffle outcome gives a cycle that passes every check.
C6_Original ==
    (pc = "stage1" /\ TwoNewbiesOneLeader) =>
        /\ newbieAndLeaders = Tag(newbies, "newbie") \o Tag(leaders, "leader")
        /\ \E d \in DrawsFor(Len(newbieAndLeaders)) :
              CycleValid(FisherYates(newbieAndLeaders, d), forbiddenPairs)

\* C6 amended: for newbies=[N1,N2], leaders=[L1], normals=[] Group A is
\* N1, N2, L1, no shuffle outcome passes (the two newbies are adjacent in
\* every cyclic order of three), and the call ends with the group-unsolvable
\* error.
C6_TwoNewbiesOneLeaderFails ==
    TwoNewbiesOneLeader =>
        /\ pc = "stage1" =>
              /\ newbieAndLeaders = Tag(newbies, "newbie") \o Tag(leaders, "leader")
              /\ \A d \in DrawsFor(Len(newbieAndLeaders)) :
                    ~CycleValid(FisherYates(newbieAndLeaders, d), forbiddenPairs)
        /\ pc \notin {"stage2", "finish"}
        /\ pc = "done" => outcome = "thrown" /\ error = "GroupUnsolvable"

\* the call for two newbies and one leader has ended
C6_Witness ==
    /\ TwoNewbiesOneLeader
    /\ pc = "done"
    /\ attempt = maxAttempts

----------------------------------------------------------------------------
(* C7 *)

\* both directed pairs of a two-member group pass isValidPair
TwoGroupBothWays(group) ==
    /\ Len(group) = 2
    /\ isValidPair(group[1], group[2], forbiddenPairs)
    /\ isValidPair(group[2], group[1], forbiddenPairs)

\* C7: a call whose Group A or Group B is a two-member group with both
\* directed pairs valid never returns a result; when both groups are matched it
\* ends with the reciprocity validation error.
C7_TwoMemberGroupFails ==
    (pc = "done" /\ partitioned
        /\ (TwoGroupBothWays(newbieAndLeaders) \/ TwoGroupBothWays(normalParticipants))) =>
        /\ outcome = "thrown"
        /\ (error \notin {"GroupOfOne", "GroupUnsolvable"} => error = "Reciprocal")

----------------------------------------------------------------------------
(* C8 *)

\* some pair X->Y is followed later in the list by Y->X
LaterReverse(fp) ==
    \E i, j \in 1..Len(fp) :
        i < j /\ fp[j].giver = fp[i].receiver /\ fp[j].receiver = fp[i].giver

\* C8: validResult throws exactly for the lists in which some pair X->Y is
\* followed later by Y->X.
C8_ValidResultDetects ==
    pc = "finish" =>
        (validResultThrows(Renumber(pairs)) <=> LaterReverse(Renumber(pairs)))

----------------------------------------------------------------------------
(* C9 *)

\* C9: with 1 <= count(newbies) and count(leaders) <= count(newbies), Group A
\* is exactly all newbies plus all leaders and Group B exactly all normals.
C9_LeadersAbsorbed ==
    (partitioned /\ Len(newbies) >= 1 /\ Len(leaders) <= Len(newbies)) =>
        /\ Len(newbieAndLeaders) = Len(newbies) + Len(leaders)
        /\ OfType(newbieAndLeaders, "newbie") = Tag(newbies, "newbie")
        /\ OfType(newbieAndLeaders, "leader") = Tag(leaders, "leader")
        /\ OfType(newbieAndLeaders, "normal") = <<>>
        /\ normalParticipants = Tag(normals, "normal")

\* the partition of two newbies, two leaders and some normals
C9_Witness ==
    /\ partitioned
    /\ Len(newbies) = 2 /\ Len(leaders) = 2 /\ Len(normals) >= 2
    /\ pc = "stage1"

----------------------------------------------------------------------------
(* C10 *)

\* C10: with count(leaders) > count(newbies) >= 1, whatever the draws, Group A
\* holds all newbies and exactly count(newbies) distinct leaders, Group B all
\* normals and the other leaders, and every leader is in exactly one group.
C10_LeadersSplit ==
    (partitioned /\ Len(newbies) >= 1 /\ Len(leaders) > Len(newbies)) =>
        LET inA == OfType(newbieAndLeaders, "leader")
            inB == OfType(normalParticipants, "leader")
        IN  /\ OfType(newbieAndLeaders, "newbie") = Tag(newbies, "newbie")
            /\ Len(newbieAndLeaders) = 2 * Len(newbies)
            /\ Len(inA) = Len(newbies)
            /\ Cardinality(NamesOf(inA)) = Len(newbies)
            /\ OfType(normalParticipants, "normal") = Tag(normals, "normal")
            /\ Len(normalParticipants) = Len(normals) + Len(leaders) - Len(newbies)
            /\ Len(inB) = Len(leaders) - Len(newbies)
            /\ NamesOf(inA) \cup NamesOf(inB) = Range(leaders)
            /\ NamesOf(inA) \cap NamesOf(inB) = {}

\* a partition that sent the last leader of the list to Group A and kept the
\* first one for Group B
C10_Witness ==
    /\ partitioned
    /\ Len(newbies) = 1 /\ Len(leaders) = 2
    /\ newbieAndLeaders[2].name = leaders[2]
    /\ normalParticipants[Len(normalParticipants)].name = leaders[1]

----------------------------------------------------------------------------
(* C11 *)

InLoop == pc \in Stages /\ Len(Group(pc)) >= 2

\* what one step taken inside the loop of shuffleAndPair may do
C11_LoopStep ==
    /\ attempt' <= maxAttempts
    /\ InLoop =>
          \/ \* a failed attempt: counted, nothing produced
             /\ attempt < maxAttempts
             /\ pc' = pc /\ attempt' = attempt + 1 /\ pairs' = pairs
             /\ outcome' = "none"
          \/ \* the first attempt that passes: its n pairs are returned
             /\ attempt < maxAttempts
             /\ pc' = After(pc) /\ outcome' = "none"
             /\ Len(pairs') = Len(pairs) + Len(Group(pc))
             /\ LET order == [i \in 1..Len(Group(pc)) |->
                                [name |-> pairs'[Len(pairs) + i].giver,
                                 type |-> pairs'[Len(pairs) + i].giverType]]
                IN  /\ Range(order) = Range(Group(pc))
                    /\ CycleValid(order, forbiddenPairs)
                    /\ pairs' = pairs \o CyclePairs(order)
          \/ \* the budget is used up
             /\ attempt = maxAttempts
             /\ pc' = "done" /\ outcome' = "thrown" /\ error' = "GroupUnsolvable"
             /\ pairs' = pairs

\* C11: for a group of 2 or more, shuffleAndPair makes at most 100 attempts:
\* a failed attempt only counts, the first passing attempt returns its n
\* cyclic pairs, and after 100 failed attempts the only step is the
\* group-unsolvable error; the counter never passes 100.
C11_AtMost100Attempts == [][C11_LoopStep]_vars

\* Group A was matched and Group B then used up all 100 attempts
C11_Witness ==
    /\ pc = "done" /\ error = "GroupUnsolvable"
    /\ attempt = maxAttempts
    /\ Len(matched) = 1

----------------------------------------------------------------------------
(* C12 *)

NonEmptyGroups == SelectSeq(<<newbieAndLeaders, normalParticipants>>, LAMBDA g : g # <<>>)

HasValidEdge(group, p) ==
    \E i, j \in 1..Len(group) :
        /\ group[i].name = p.giver /\ group[i].type = p.giverType
        /\ group[j].name = p.receiver /\ group[j].type = p.receiverType
        /\ isValidPair(group[i], group[j], forbiddenPairs)

\* C12: when the matcher fails for a group (one member, or the budget used
\* up) makePairs throws and returns no pair, also when Group A was already
\* matched; a returned result has every non-empty group matched, in full and
\* under the unrelaxed rules.
C12_NoPartialResult ==
    /\ (pc = "done" /\ error \in {"GroupOfOne", "GroupUnsolvable"}) =>
          outcome = "thrown" /\ finalPairs = <<>> /\ ~metadataError
    /\ (pc = "done" /\ partitioned
          /\ \E g \in Range(NonEmptyGroups) : g \notin Range(matched)) =>
          outcome = "thrown" /\ finalPairs = <<>>
    /\ (Returned /\ partitioned) =>
          /\ matched = NonEmptyGroups
          /\ Len(finalPairs) = Len(newbieAndLeaders) + Len(normalParticipants)
          /\ \A i \in 1..Len(finalPairs) :
                \E g \in Range(matched) : HasValidEdge(g, finalPairs[i])

\* Group A was matched, then Group B failed
C12_Witness ==
    /\ pc = "done" /\ outcome = "thrown"
    /\ error \in {"GroupOfOne", "GroupUnsolvable"}
    /\ Len(matched) = 1 /\ pairs # <<>>
    /\ normalParticipants # <<>>

----------------------------------------------------------------------------
(* C13 *)

\* C13: makePairs with three empty lists does not throw: it returns an empty
\* pair list and metadata with the error field set, and runs neither the
\* partitioner nor the matcher.
C13_EmptyPopulation ==
    (pc = "done" /\ Len(AllNames) = 0) =>
        /\ outcome = "returned" /\ error = ""
        /\ finalPairs = <<>> /\ metadataError
        /\ ~partitioned /\ matched = <<>> /\ pairs = <<>> /\ attempt = 0

\* the call with nobody, and a deny list, has ended
C13_Witness ==
    /\ pc = "done" /\ Len(AllNames) = 0
    /\ filterPairs # <<>>

----------------------------------------------------------------------------
(* C14 *)

\* C14: makePairs with exactly one participant in total, of any category,
\* throws the insufficient-population error and returns nothing.
C14_SingleParticipant ==
    (pc = "done" /\ Len(AllNames) = 1) =>
        /\ outcome = "thrown" /\ error = "OneParticipant"
        /\ finalPairs = <<>> /\ ~metadataError
        /\ ~partitioned /\ matched = <<>>

\* the call with one leader and nobody else has ended
C14_Witness ==
    /\ pc = "done"
    /\ Len(leaders) = 1 /\ Len(normals) = 0 /\ Len(newbies) = 0

----------------------------------------------------------------------------
(* C15 *)

\* C15: every pair of a returned result has a giver name different from its
\* receiver name, also when a name was supplied more than once.
C15_NoSelfPair ==
    Returned =>
        \A i \in 1..Len(finalPairs) : finalPairs[i].giver # finalPairs[i].receiver

\* a result for a group that holds the same name twice
C15_Witness ==
    /\ Returned
    /\ \E g \in 1..Len(matched) :
          \E i, j \in 1..Len(matched[g]) : i # j /\ matched[g][i].name = matched[g][j].name

----------------------------------------------------------------------------
(* C16 *)

GiverOf(p) == [name |-> p.giver, type |-> p.giverType]

\* C16: a returned result with N pairs has the ids 1..N in list order, and
\* all Group A pairs come before all Group B pairs.
C16_SequentialIds ==
    (Returned /\ partitioned) =>
        /\ \A i \in 1..Len(finalPairs) : finalPairs[i].id = i
        /\ \A i \in 1..Len(finalPairs) :
              IF i <= Len(newbieAndLeaders)
              THEN GiverOf(finalPairs[i]) \in Range(newbieAndLeaders)
              ELSE GiverOf(finalPairs[i]) \in Range(normalParticipants)

\* a result with pairs of both groups
C16_Witness ==
    /\ Returned
    /\ Len(newbieAndLeaders) >= 2 /\ Len(normalParticipants) >= 3
    /\ Len(finalPairs) = Len(newbieAndLeaders) + Len(normalParticipants)

----------------------------------------------------------------------------
(* C17 *)

\* C17: no returned result holds a pair whose giver and receiver are both
\* leaders.
C17_NoLeaderLeaderPair ==
    Returned =>
        \A i \in 1..Len(finalPairs) :
            ~(finalPairs[i].giverType = "leader" /\ finalPairs[i].receiverType = "leader")

----------------------------------------------------------------------------
(* C18, C20 *)

\* C18: a result that makeRandomPairs(data) produces holds no pair that
\* data.filterPairs forbids, in either direction.
C18_ServiceHonoursFilter ==
    (Returned /\ dataGiven) =>
        \A i \in 1..Len(dataFilterPairs) :
            /\ ~HasEdge(finalPairs, dataFilterPairs[i][1], dataFilterPairs[i][2])
            /\ ~HasEdge(finalPairs, dataFilterPairs[i][2], dataFilterPairs[i][1])

\* C20: two concurrent updateCellWithCAS calls on one cell, with the same
\* expectedValue equal to the cell's value and different new values that
\* both change the cell: under every interleaving at most one call succeeds.
C20_AtMostOneSucceeds ==
    \A c1, c2 \in Clients :
        ( /\ c1 # c2
          /\ cas[c1].expectedValue = cellInitial
          /\ cas[c2].expectedValue = cellInitial
          /\ cas[c1].newValue # cas[c2].newValue
          /\ Trim(cas[c1].newValue) # Trim(cellInitial)
          /\ Trim(cas[c2].newValue) # Trim(cellInitial) )
        => ~(cas[c1].result = "success" /\ cas[c2].result = "success")

----------------------------------------------------------------------------
(* C21 *)

\* what a step of the call of client c may do; puts counts the calls of
\* updateCell (line 255)
C21_CallStep(c) ==
    /\ cas'[c].puts <= 1
    /\ (cas[c].pc = "get" /\ cas'[c] # cas[c] /\ cas'[c].result # "failed") =>
          IF Trim(cell) # Trim(cas[c].expectedValue)
          THEN /\ cas'[c].pc = "done" /\ cas'[c].result = "conflict"
               /\ cas'[c].puts = 0 /\ cell' = cell
          ELSE /\ cas'[c].pc = "put" /\ cas'[c].result = "none"
               /\ cas'[c].puts = 0 /\ cell' = cell
    /\ (cas[c].pc = "put" /\ cas'[c] # cas[c]) =>
          /\ cas'[c].pc = "done" /\ cas'[c].puts = 1
          /\ cas'[c].result = "success" => cell' = cas[c].newValue
    /\ cas[c].pc = "done" => cas'[c] = cas[c]

\* C21: when the value read from the cell differs from expectedValue (both
\* trimmed) the call ends with the CONFLICT error and updateCell is never
\* called; when they are equal updateCell is called exactly once.
C21_ConflictOrOneUpdate == [][\A c \in Clients : C21_CallStep(c)]_vars

\* one call ended in CONFLICT without a PUT, the other updated once although
\* the cell held its expected value followed by a blank
C21_Witness ==
    \E c1, c2 \in Clients :
        /\ cas[c1].result = "conflict" /\ cas[c1].puts = 0
        /\ cas[c2].result = "success" /\ cas[c2].puts = 1
        /\ cas[c2].currentValue # cas[c2].expectedValue

----------------------------------------------------------------------------
(* C22 *)

\* C22: savePairsToSheet(pairs) with n >= 1 pairs on an initialized service
\* sends one batch update with range J4:K(3+n) whose rows are the (giver,
\* receiver) tuples in the given order; uninitialized or with no pairs it
\* throws and sends nothing.
C22_SaveSendsOneBatch ==
    sheetCall.op = "save" =>
        IF NotInitialized
        THEN sheetCall.error = "NotInitialized" /\ sheetCall.requests = <<>>
        ELSE IF Len(sheetCall.pairs) = 0
        THEN sheetCall.error = "NoPairs" /\ sheetCall.requests = <<>>
        ELSE /\ Len(sheetCall.requests) = 1
             /\ sheetCall.requests[1].method = "batchUpdate"
             /\ sheetCall.requests[1].range =
                    [sheet |-> "DB", from |-> <<"J", 4>>,
                     to |-> <<"K", 3 + Len(sheetCall.pairs)>>]
             /\ Len(sheetCall.requests[1].values) = Len(sheetCall.pairs)
             /\ \A i \in 1..Len(sheetCall.pairs) :
                   sheetCall.requests[1].values[i] =
                       <<sheetCall.pairs[i].giver, sheetCall.pairs[i].receiver>>

----------------------------------------------------------------------------
(* C23 *)

\* the pair is one of the supplied filterPairs entries, in either direction
OnDenyList(g, r, fp) ==
    \E i \in 1..Len(fp) : fp[i] = <<g.name, r.name>> \/ fp[i] = <<r.name, g.name>>

\* C23: isValidPair returns false exactly when the names are equal, or the
\* pair is on the deny list in either direction, or one is newbie and the
\* other normal, or both are newbie; in every other case it returns true.
C23_ExactlyFourRules ==
    verdict # "none" =>
        (verdict = "false" <=>
            \/ checkGiver.name = checkReceiver.name
            \/ OnDenyList(checkGiver, checkReceiver, checkFilter)
            \/ {checkGiver.type, checkReceiver.type} = {"newbie", "normal"}
            \/ (checkGiver.type = "newbie" /\ checkReceiver.type = "newbie"))

----------------------------------------------------------------------------
(* C30 *)

\* C30: the deny-list lookup hits for giver -> receiver only if (giver,
\* receiver) or (receiver, giver) is one of the supplied filterPairs entries:
\* no two different pairs of names share a lookup key.
C30_LookupHitsOnlySuppliedPairs ==
    (verdict # "none"
     /\ Key(checkGiver.name, checkReceiver.name) \in BuildForbidden(checkFilter))
        => OnDenyList(checkGiver, checkReceiver, checkFilter)

----------------------------------------------------------------------------
(* C24 *)

\* C24: with more newbies than leaders makePairs never returns a result,
\* whatever the normals, the filterPairs and the draws: the call ends in an
\* error.
C24_MoreNewbiesThanLeadersFails ==
    Len(newbies) > Len(leaders) =>
        /\ outcome # "returned"
        /\ pc \notin {"stage2", "finish"}
        /\ pc = "done" => outcome = "thrown"

\* two newbies, one leader and some normals: Group A used up its attempts
C24_Witness ==
    /\ Len(newbies) > Len(leaders) /\ Len(leaders) >= 1 /\ Len(normals) >= 2
    /\ pc = "done" /\ error = "GroupUnsolvable"

----------------------------------------------------------------------------
(* C25 *)

\* the receiver of x in ps, "" when x gives to nobody
ReceiverFrom(ps, x) ==
    IF \E i \in 1..Len(ps) : ps[i].giver = x
    THEN ps[CHOOSE i \in 1..Len(ps) : ps[i].giver = x].receiver
    ELSE ""

\* where k steps giver -> receiver lead from x
RECURSIVE Follow(_, _, _)
Follow(ps, x, k) == IF k = 0 THEN x ELSE Follow(ps, ReceiverFrom(ps, x), k - 1)

Orbit(ps, x, n) == {Follow(ps, x, k) : k \in 0..(n - 1)}

SingleCycle(ps, group) ==
    \A x \in NamesOf(group) :
        /\ Orbit(ps, x, Len(group)) = NamesOf(group)
        /\ Follow(ps, x, Len(group)) = x

\* C25: in a returned result over distinct names the pairs of each non-empty
\* group are one cycle through all its members, so there are at most two
\* cycles and no pair joins a member of Group A to a member of Group B.
C25_OneCyclePerGroup ==
    (Returned /\ Distinct(AllNames)) =>
        /\ \A g \in Range(NonEmptyGroups) : SingleCycle(finalPairs, g)
        /\ Cardinality({Orbit(finalPairs, x, Len(finalPairs)) : x \in Range(AllNames)}) <= 2
        /\ \A i \in 1..Len(finalPairs) :
              finalPairs[i].giver \in NamesOf(newbieAndLeaders)
                  <=> finalPairs[i].receiver \in NamesOf(newbieAndLeaders)

\* a result with a cycle of four in Group A and a cycle of two in Group B
C25_Witness ==
    /\ Returned /\ Distinct(AllNames)
    /\ Len(newbieAndLeaders) = 4 /\ Len(normalParticipants) = 2
    /\ Len(finalPairs) = 6

----------------------------------------------------------------------------
(* C26 *)

----------------------------------------------------------------------------
(* C29 *)

\* what holds of the service after every step
C29_After ==
    /\ isInitialized <=> lifecycle = "initialize"
    /\ sheetsService = "service" <=> lifecycle = "initialize"
    /\ sheetCall.op \in {"fetch", "save"} =>
          /\ sheetCall.requests # <<>> => lifecycle = "initialize"
          /\ lifecycle \in {"none", "cleanup"} =>
                sheetCall.error = "NotInitialized" /\ sheetCall.requests = <<>>

\* C29: fetchStructuredData and savePairsToSheet reach the remote service
\* only when the last lifecycle call that completed was an initialize; before
\* the first initialize and after cleanup they throw the not-initialized
\* error; a failed initialize changes neither isInitialized nor sheetsService.
C29_Lifecycle ==
    [][ /\ C29_After'
        /\ (sheetCall'.op = "initialize" /\ sheetCall'.error # "") =>
              UNCHANGED <<isInitialized, sheetsService>> ]_vars

\* a fetch after cleanup, refused without a request
C29_Witness ==
    /\ sheetCall.op = "fetch" /\ sheetCall.error = "NotInitialized"
    /\ lifecycle = "cleanup" /\ ncalls = MaxCalls

----------------------------------------------------------------------------
(* C27 *)

\* the end of call f, a call that a later fetchData call found in flight
C27_CancelledEnds(f) ==
    (f \in hook.superseded /\ hook.fetches[f].pc = "awaiting"
     /\ hook'.fetches[f].pc = "done") =>
        /\ hook'.data # f
        /\ (\E g \in Fetches \ {f} : hook.fetches[g].pc = "awaiting") =>
              /\ hook'.loading = hook.loading
              /\ hook'.abortRef = hook.abortRef

\* C27: a fetchData call that was still awaiting when a later call started is
\* cancelled: its late response is never written to data, and while the later
\* request is in flight its end neither resets loading nor clears the abort
\* controller.
C27_EarlierFetchCancelled == [][\A f \in Fetches : C27_CancelledEnds(f)]_vars

----------------------------------------------------------------------------
(* C28 *)

\* C28: makeApiRequest retries only after a 401 and at most once: it clears
\* the authentication, authenticates and sends the request once more; a
\* second failure is thrown, a first failure that is no 401 is thrown without
\* retry; a call sends at most 2 requests.
C28_RetryOnceOn401 ==
    /\ api.sent <= 2 /\ api.sent = Len(api.statuses) /\ api.cleared <= 1
    /\ api.sent = 2 => api.statuses[1] = "401" /\ api.cleared = 1
    /\ api.cleared = 1 => api.sent >= 1 /\ api.statuses[1] = "401"
    /\ api.pc = "done" =>
          /\ api.result = "returned" <=>
                api.sent >= 1 /\ api.statuses[api.sent] = "200"
          /\ api.result # "returned" => api.result = "thrown"
          /\ (api.sent >= 1 /\ api.statuses[1] # "401") => api.sent = 1
          /\ (api.sent = 1 /\ api.statuses[1] = "401") => api.token = "none"

\* the retry was answered with 401 again and the call threw
C28_Witness ==
    /\ api.pc = "done" /\ api.result = "thrown"
    /\ api.statuses = <<"401", "401">> /\ api.cleared = 1

====
